---- MODULE Spec2Model ----
(***************************************************************************)
(* Track-Check (src/TrackCheck.py): the snapshot / diff / notify pipeline. *)
(*                                                                         *)
(* main() walks the user registry; for each user it pages through the      *)
(* remote library (get_liked_songs), writes the tracks into the user's     *)
(* liked_songs table under today's date (save_tracks_to_db), and compares  *)
(* the two most recent fetch dates of that table (compare_tracks), mailing *)
(* the difference (send_email).                                            *)
(*                                                                         *)
(* A liked_songs table is a sequence of rows in rowid (scan) order.  Dates *)
(* are day numbers: strftime("%Y-%m-%d") is order preserving on days, so   *)
(* ORDER BY fetch_date on the strings is the order of the day numbers.     *)
(***************************************************************************)
EXTENDS Integers, Sequences, FiniteSets, TLC

\* ---------------------------------------------------------------- bounds
\* track ids of the account, calendar days, pages that carry items
NumTracks == 2
MaxDay == 3
MaxPipelinePages == 2
MaxFetchPages == 2
MaxFetchItems == 2

\* ------------------------------------------------------ program constants
PageLimit == 50

\* spotify_user_id values, and the users tables a run may find
UserIds == {1, 2}
Registries == {<< >>, <<1>>, <<1, 2>>}

TrackIds == 1..NumTracks
TrackNames == {"n1", "n2"}
Days == 1..MaxDay

VARIABLES
    today,        \* the calendar day datetime.now() reports
    users,        \* rows of the users table, as main() reads them
    pc,           \* "idle" | "fetch" | "save" | "compare": where main() is
    i,            \* index into users of the user being processed
    tracks,       \* get_liked_songs: tracks; in main(): current_tracks
    offset,       \* get_liked_songs: offset (kept until the save or the exit)
    total,        \* get_liked_songs: total, << >> is None (kept until the save)
    store,        \* store[u]: the rows of liked_songs_<u>.db, in rowid order
    exit,         \* "none" | "ok" | "failed": how the last process ended
    requests,     \* history: offsets get_liked_songs requested in this call
    pages,        \* history: item lists the service returned in this call
    event,        \* history: what the last program step did
    stage,        \* history: stage[u], how far this run took user u
    lastRun,      \* history: lastRun[u], u's latest save (day and track ids)
    lastSave,     \* history: this process's latest save_tracks_to_db call
    lastCompare   \* history: what compare_tracks did after that save

vars == <<today, users, pc, i, tracks, offset, total, store, exit,
          requests, pages, event, stage, lastRun, lastSave, lastCompare>>

fetchVars == <<tracks, offset, total, requests, pages>>
histVars == <<lastRun, lastSave, lastCompare>>

\* ------------------------------------------------------------- helpers
Range(s) == {s[k] : k \in 1..Len(s)}

SeqsUpTo(S, n) == UNION {[1..k -> S] : k \in 0..n}

RECURSIVE Flatten(_)
Flatten(ss) == IF ss = << >> THEN << >> ELSE Head(ss) \o Flatten(Tail(ss))

Max(S) == CHOOSE x \in S : \A y \in S : y <= x

\* ------------------------------------------------- the remote service
\* What sp.current_user_saved_tracks(limit=50, offset=offset) may answer:
\* an exception, or {'total': n, 'items': [...]}.  A profile bounds the
\* answers: the tracks the account may hold, the page sizes, the totals.
Item(p) ==
    [track : [id : p.ids, name : p.names, artists : p.artists],
     added_at : {"t"}]

Results(p) ==
    [total : p.totals, items : SeqsUpTo(Item(p), p.maxItems)]

PipelineProfile ==
    [ids |-> TrackIds, names |-> TrackNames, artists |-> {<<"r">>},
     totals |-> {120}, maxItems |-> 1, maxPages |-> MaxPipelinePages]

RunProfile ==
    [ids |-> {1, 2}, names |-> {"n1"}, artists |-> {<<"r">>},
     totals |-> {120}, maxItems |-> 1, maxPages |-> 1]

FetchProfile ==
    [ids |-> {1, 2}, names |-> {"n1"}, artists |-> {<< >>, <<"s", "r">>},
     totals |-> {0, 120}, maxItems |-> MaxFetchItems, maxPages |-> MaxFetchPages]

\* ------------------------------------------------------ get_liked_songs
\* track['artists'][0] raises IndexError on an empty artist list.
ItemOk(item) == item.track.artists # << >>

\* lines 110-116: the dict appended for one item
TrackOf(item) ==
    [id |-> item.track.id,
     name |-> item.track.name,
     artist |-> Head(item.track.artists),
     added_at |-> item.added_at]

\* lines 109-116: the for loop over results['items']
Accumulate(tr, items) == tr \o [k \in 1..Len(items) |-> TrackOf(items[k])]

StopsAtReportedTotal(results) == results.items = << >> \/ results.total = 0
\* line 106: if not results['items']: break
EmptyPage(results) == results.items = << >>

\* line 118
NextOffset(off) == off + PageLimit

ReturnsPartialTracks(tr) == [pc |-> "save", exit |-> "none", tracks |-> tr]
\* lines 124-126: except Exception: sys.exit(1); SystemExit leaves main()
FetchErrorOutcome(tr) == [pc |-> "idle", exit |-> "failed", tracks |-> << >>]

\* ---------------------------------------------------- save_tracks_to_db
RowOf(track, fetch_date) ==
    [track_id |-> track.id,
     track_name |-> track.name,
     artist_name |-> track.artist,
     added_at |-> track.added_at,
     fetch_date |-> fetch_date]

InsertKeepingOldRows(rows, row) == Append(rows, row)
InsertOrReplaceByIdAndName(rows, row) ==
    SelectSeq(rows, LAMBDA r : ~(r.track_id = row.track_id
                                 /\ r.track_name = row.track_name))
        \o <<row>>
\* lines 64-72, 133-136: track_id is the PRIMARY KEY, so INSERT OR REPLACE
\* deletes the row that holds the same track_id, whatever its fetch_date,
\* and inserts the new row after every rowid in use.
InsertOrReplace(rows, row) ==
    SelectSeq(rows, LAMBDA r : r.track_id # row.track_id) \o <<row>>

\* lines 132-137: one INSERT OR REPLACE per track, in list order, one commit
RECURSIVE SaveTracksToDb(_, _, _)
SaveTracksToDb(rows, tr, fetch_date) ==
    IF tr = << >> THEN rows
    ELSE SaveTracksToDb(InsertOrReplace(rows, RowOf(Head(tr), fetch_date)),
                        Tail(tr), fetch_date)

\* ------------------------------------------------------- compare_tracks
DatesOf(rows) == {rows[k].fetch_date : k \in 1..Len(rows)}

RECURSIVE Descending(_)
Descending(S) ==
    IF S = {} THEN << >> ELSE <<Max(S)>> \o Descending(S \ {Max(S)})

DatesWithoutDistinct(rows, limit) ==
    LET all == [k \in 1..Len(rows) |->
                  rows[CHOOSE j \in 1..Len(rows) :
                         Cardinality({m \in 1..Len(rows) :
                            rows[m].fetch_date > rows[j].fetch_date
                            \/ (rows[m].fetch_date = rows[j].fetch_date /\ m < j)})
                         = k - 1].fetch_date]
    IN  SubSeq(all, 1, IF Len(all) < limit THEN Len(all) ELSE limit)
\* line 143: SELECT DISTINCT fetch_date ... ORDER BY fetch_date DESC LIMIT 2
DistinctDatesDescending(rows, limit) ==
    LET all == Descending(DatesOf(rows))
    IN  SubSeq(all, 1, IF Len(all) < limit THEN Len(all) ELSE limit)

\* lines 154-159, 163-168: rows under dateX whose track_id has no row
\* under dateY, in scan order
TracksExclusive(rows, dateX, dateY) ==
    SelectSeq(rows, LAMBDA r :
        /\ r.fetch_date = dateX
        /\ r.track_id \notin {rows[k].track_id :
                                k \in {m \in 1..Len(rows) : rows[m].fetch_date = dateY}})

\* the SELECT list: track_name, artist_name
NameArtist(rows) == [k \in 1..Len(rows) |-> <<rows[k].track_name, rows[k].artist_name>>]

IdsOf(rows) == {rows[k].track_id : k \in 1..Len(rows)}

\* lines 172-181: the mail body, one tuple per line
Content(removed_tracks, added_tracks) ==
    <<  <<"Hi,">>, <<"">>,
        <<"Here are the changes to your Spotify Liked Songs:">>, <<"">> >>
    \o (IF removed_tracks # << >>
        THEN <<  <<"Removed Tracks:">> >>
             \o [k \in 1..Len(removed_tracks) |->
                   <<"- ", removed_tracks[k][1], " by ", removed_tracks[k][2]>>]
        ELSE <<  <<"No tracks have been removed.">> >>)
    \o <<  <<"">> >>
    \o (IF added_tracks # << >>
        THEN <<  <<"Added Tracks:">> >>
             \o [k \in 1..Len(added_tracks) |->
                   <<"+ ", added_tracks[k][1], " by ", added_tracks[k][2]>>]
        ELSE <<  <<"No tracks have been added.">> >>)

\* ------------------------------------------------------------ send_email
SendEmailRaises(delivered) == IF delivered THEN "sent" ELSE "raised"
\* lines 78-91: every Exception of the transport is printed, none leaves
SendEmail(delivered) == IF delivered THEN "sent" ELSE "logged"

\* ------------------------------------------------------------------ state
NoRun == [day |-> 0, ids |-> {}, daily |-> TRUE]

NoSave ==
    [user |-> 0, day |-> 0, n |-> 0, ids |-> {}, names |-> {},
     prev |-> NoRun, wasEmpty |-> TRUE]

NoCompare ==
    [user |-> 0, ndates |-> 0, called |-> FALSE, outcome |-> "none",
     removed_ids |-> {}, added_ids |-> {}, content |-> << >>]

TrackIdsOf(tr) == {tr[k].id : k \in 1..Len(tr)}

InitWith(registry) ==
    /\ today = 1
    /\ users = registry
    /\ pc = "idle"
    /\ i = 0
    /\ tracks = << >>
    /\ offset = 0
    /\ total = << >>
    /\ store = [u \in UserIds |-> << >>]
    /\ exit = "none"
    /\ requests = << >>
    /\ pages = << >>
    /\ event = "none"
    /\ stage = [u \in UserIds |-> "none"]
    /\ lastRun = [u \in UserIds |-> NoRun]
    /\ lastSave = NoSave
    /\ lastCompare = NoCompare

\* One registered user.
Init == InitWith(<<1>>)

\* Any of the registries.
InitRun == \E registry \in Registries : InitWith(registry)

\* ---------------------------------------------------------------- actions
\* datetime.now() moves to the next calendar day.
Tick ==
    /\ today < MaxDay
    /\ today' = today + 1
    /\ UNCHANGED <<users, pc, i, store, exit, event, stage>>
    /\ UNCHANGED fetchVars
    /\ UNCHANGED histVars

\* lines 95-97: the locals of a fresh get_liked_songs call
EnterFetch ==
    /\ tracks' = << >>
    /\ offset' = 0
    /\ total' = << >>
    /\ requests' = << >>
    /\ pages' = << >>

\* lines 186-203: a new process runs main() up to the first user's fetch
\* (line 210 at once when the users table is empty); lastSave and lastCompare
\* describe the running process and start empty
StartRun ==
    /\ pc = "idle"
    /\ stage' = [u \in UserIds |-> "none"]
    /\ event' = "start"
    /\ lastSave' = NoSave
    /\ lastCompare' = NoCompare
    /\ EnterFetch
    /\ IF users = << >>
       THEN /\ pc' = "idle"
            /\ i' = 0
            /\ exit' = "ok"
       ELSE /\ pc' = "fetch"
            /\ i' = 1
            /\ exit' = "none"
    /\ UNCHANGED <<today, users, store, lastRun>>

\* lines 100-119: one pass of the loop over a page that has items
FetchPage(p) ==
    /\ pc = "fetch"
    /\ Len(pages) < p.maxPages
    /\ \E results \in Results(p) :
         /\ ~EmptyPage(results)
         /\ \A k \in 1..Len(results.items) : ItemOk(results.items[k])
         /\ total' = IF total = << >> THEN <<results.total>> ELSE total
         /\ tracks' = Accumulate(tracks, results.items)
         /\ offset' = NextOffset(offset)
         /\ requests' = Append(requests, offset)
         /\ pages' = Append(pages, results.items)
    /\ event' = "page"
    /\ UNCHANGED <<today, users, pc, i, store, exit, stage>>
    /\ UNCHANGED histVars

\* lines 101-107, 121-122: the page that ends the loop; tracks is returned
FetchDone(p) ==
    /\ pc = "fetch"
    /\ \E results \in Results(p) :
         /\ EmptyPage(results)
         /\ total' = IF total = << >> THEN <<results.total>> ELSE total
         /\ requests' = Append(requests, offset)
         /\ pages' = Append(pages, results.items)
    /\ pc' = "save"
    /\ event' = "fetched"
    /\ stage' = [stage EXCEPT ![users[i]] = "fetched"]
    /\ UNCHANGED <<today, users, i, tracks, offset, store, exit>>
    /\ UNCHANGED histVars

\* lines 101, 110-116, 124-126: the request raises, or an item of the page
\* has no artist; whatever was accumulated is dropped with the process
FetchError(p) ==
    /\ pc = "fetch"
    /\ \E cause \in {"request", "item"} :
         cause = "item" =>
            /\ Len(pages) < p.maxPages
            /\ \E results \in Results(p) :
                 \E k \in 1..Len(results.items) : ~ItemOk(results.items[k])
    /\ LET out == FetchErrorOutcome(tracks)
       IN  /\ pc' = out.pc
           /\ exit' = out.exit
           /\ tracks' = out.tracks
           /\ stage' = [stage EXCEPT ![users[i]] =
                          IF out.pc = "save" THEN "fetched" ELSE "failed"]
    /\ total' = << >>
    /\ requests' = << >>
    /\ pages' = << >>
    /\ UNCHANGED offset
    /\ event' = "page_error"
    /\ UNCHANGED <<today, users, i, store>>
    /\ UNCHANGED histVars

\* lines 128-138, called from line 204; fetch_date is read once (line 131)
\* and the rows become visible together at the commit (line 137)
Save ==
    /\ pc = "save"
    /\ LET u == users[i]
           fetch_date == today
       IN  /\ store' = [store EXCEPT ![u] = SaveTracksToDb(store[u], tracks, fetch_date)]
           /\ lastSave' = [user |-> u, day |-> fetch_date, n |-> Len(tracks),
                           ids |-> TrackIdsOf(tracks),
                           names |-> {tracks[k].name : k \in 1..Len(tracks)},
                           prev |-> lastRun[u], wasEmpty |-> store[u] = << >>]
           /\ lastRun' = [lastRun EXCEPT ![u] =
                            [day |-> fetch_date, ids |-> TrackIdsOf(tracks),
                             daily |-> lastRun[u].daily /\ lastRun[u].day < fetch_date]]
           /\ stage' = [stage EXCEPT ![u] = "saved"]
    /\ pc' = "compare"
    /\ event' = "save"
    /\ lastCompare' = NoCompare
    /\ offset' = 0
    /\ total' = << >>
    /\ requests' = << >>
    /\ pages' = << >>
    /\ UNCHANGED <<today, users, i, tracks, exit>>

\* lines 208, 197-203 and 210: close, then the next user's fetch or the end
Advance ==
    IF i < Len(users)
    THEN /\ pc' = "fetch"
         /\ i' = i + 1
         /\ exit' = "none"
    ELSE /\ pc' = "idle"
         /\ i' = i
         /\ exit' = "ok"

\* an exception that leaves compare_tracks leaves main(): traceback, status 1
Crash ==
    /\ pc' = "idle"
    /\ i' = i
    /\ exit' = "failed"

\* lines 140-148, called from line 207: fewer than two dates
CompareNotEnoughData ==
    /\ pc = "compare"
    /\ LET u == users[i]
           dates == DistinctDatesDescending(store[u], 2)
       IN  /\ Len(dates) < 2
           /\ lastCompare' =
                [user |-> u, ndates |-> Cardinality(DatesOf(store[u])),
                 called |-> FALSE, outcome |-> "none",
                 removed_ids |-> {}, added_ids |-> {}, content |-> << >>]
           /\ stage' = [stage EXCEPT ![u] = "compared"]
    /\ event' = "not_enough_data"
    /\ Advance
    /\ EnterFetch
    /\ UNCHANGED <<today, users, store, lastRun, lastSave>>

\* lines 140-184, called from line 207: the diff and the mail
CompareAndNotify ==
    /\ pc = "compare"
    /\ LET u == users[i]
           dates == DistinctDatesDescending(store[u], 2)
       IN  /\ Len(dates) >= 2
           /\ LET latest_date == dates[1]
                  previous_date == dates[2]
                  removed == TracksExclusive(store[u], previous_date, latest_date)
                  added == TracksExclusive(store[u], latest_date, previous_date)
                  removed_tracks == NameArtist(removed)
                  added_tracks == NameArtist(added)
              IN  \E delivered \in BOOLEAN :
                    LET outcome == SendEmail(delivered)
                    IN  /\ lastCompare' =
                             [user |-> u, ndates |-> Cardinality(DatesOf(store[u])),
                              called |-> TRUE, outcome |-> outcome,
                              removed_ids |-> IdsOf(removed),
                              added_ids |-> IdsOf(added),
                              content |-> Content(removed_tracks, added_tracks)]
                        /\ event' = IF delivered THEN "mail_sent" ELSE "mail_error"
                        /\ IF outcome = "raised"
                           THEN /\ Crash
                                /\ UNCHANGED stage
                           ELSE /\ Advance
                                /\ stage' = [stage EXCEPT ![u] =
                                               IF delivered THEN "notified"
                                               ELSE "mail_failed"]
    /\ EnterFetch
    /\ UNCHANGED <<today, users, store, lastRun, lastSave>>

\* ---------------------------------------------------------- specifications
\* One registered user; the library is any list of up to MaxPipelinePages
\* tracks over TrackIds x TrackNames, one item a page.
Next ==
    \/ Tick
    \/ StartRun
    \/ FetchPage(PipelineProfile)
    \/ FetchDone(PipelineProfile)
    \/ FetchError(PipelineProfile)
    \/ Save
    \/ CompareNotEnoughData
    \/ CompareAndNotify

Spec == Init /\ [][Next]_vars

\* Any of the registries; the library is empty or one of two tracks.
NextRun ==
    \/ Tick
    \/ StartRun
    \/ FetchPage(RunProfile)
    \/ FetchDone(RunProfile)
    \/ FetchError(RunProfile)
    \/ Save
    \/ CompareNotEnoughData
    \/ CompareAndNotify

SpecRun == InitRun /\ [][NextRun]_vars

\* get_liked_songs alone: up to MaxFetchPages pages of up to MaxFetchItems
\* items, reported totals 0 and 120, items with and without artists.
NextFetch ==
    \/ StartRun
    \/ FetchPage(FetchProfile)
    \/ FetchDone(FetchProfile)
    \/ FetchError(FetchProfile)

SpecFetch == Init /\ [][NextFetch]_vars

TypeOK ==
    /\ today \in Days
    /\ pc \in {"idle", "fetch", "save", "compare"}
    /\ exit \in {"none", "ok", "failed"}
    /\ \A u \in UserIds : \A k \in 1..Len(store[u]) : store[u][k].fetch_date \in Days

\* ----------------------------------------------------------------- claims
\* The ids a run fetched, and the (id, name, artist) rows under one date.
CurIds == lastSave.ids
PrevIds == lastSave.prev.ids

RowsUnder(rows, d) ==
    {<<rows[k].track_id, rows[k].track_name, rows[k].artist_name>> :
        k \in {m \in 1..Len(rows) : rows[m].fetch_date = d}}

\* The report of a run that follows an earlier run of the same user on an
\* earlier day: lastCompare and lastSave then describe the same run.
ReportAfterEarlierDay ==
    /\ lastCompare.user # 0
    /\ lastCompare.called
    /\ lastSave.prev.day >= 1
    /\ lastSave.prev.day < lastSave.day

\* C1: after a run on day D1 with library L1 and a run on a later day D2 with
\* library L2, the added list of the D2 report is exactly the tracks whose id
\* is in L2 and not in L1.
C1_AddedIsNewIds ==
    ReportAfterEarlierDay => lastCompare.added_ids = CurIds \ PrevIds

\* C2: over runs on strictly increasing days, the removed list of each report
\* is exactly the tracks whose id was in the preceding run's library and is
\* not in the current run's library.
C2_RemovedIsPrecedingMinusCurrent ==
    (ReportAfterEarlierDay /\ lastRun[lastCompare.user].daily)
        => lastCompare.removed_ids = PrevIds \ CurIds

\* C3: a save under today's date leaves the rows stored under every other
\* date as they were.
C3_OtherDatesUntouched ==
    [][\A u \in UserIds : \A d \in Days :
          d # today => RowsUnder(store'[u], d) = RowsUnder(store[u], d)]_vars

\* C4: a run on a later day than an earlier run of the same user, both having
\* saved at least one track, produces a report and calls send_email.
C4_LaterRunReports ==
    (/\ lastCompare.user # 0
     /\ lastSave.prev.day >= 1
     /\ lastSave.prev.day < lastSave.day
     /\ PrevIds # {}
     /\ CurIds # {})
        => lastCompare.called

\* C5: with fewer than two distinct fetch dates in the store when
\* compare_tracks runs, no report is built and send_email is not called; a
\* user's first run never notifies.
C5_NoMailBelowTwoDates ==
    lastCompare.user # 0 =>
        /\ lastCompare.ndates < 2 =>
              /\ ~lastCompare.called
              /\ lastCompare.outcome = "none"
              /\ lastCompare.content = << >>
        /\ lastSave.wasEmpty => ~lastCompare.called

C5_Witness ==
    /\ lastCompare.user # 0
    /\ lastSave.wasEmpty
    /\ Cardinality(CurIds) = 2
    /\ lastCompare.ndates = 1
    /\ ~lastCompare.called

\* C6: whenever main() is about to save the fetched list (any list, over any
\* store reached so far), saving it a second time under the same fetch date
\* leaves every row, and the order of the rows, as the first save leaves them.
C6_SaveIdempotent ==
    pc = "save" =>
        LET once == SaveTracksToDb(store[users[i]], tracks, today)
        IN  SaveTracksToDb(once, tracks, today) = once

C6_Witness ==
    /\ lastSave.user # 0
    /\ lastSave.prev.day = lastSave.day
    /\ PrevIds = CurIds
    /\ lastSave.n = 2
    /\ today = lastSave.day
    /\ Cardinality(DatesOf(store[lastSave.user])) = 2

\* C7: get_liked_songs requests offsets 0, 50, 100, ..., stops at the first
\* page without items whatever total was reported, and returns the items of
\* the pages before it, concatenated in request and item order.
TracksOfPage(items) == [k \in 1..Len(items) |-> TrackOf(items[k])]

C7_FetchIsConcatenation ==
    /\ \A k \in 1..Len(requests) : requests[k] = (k - 1) * PageLimit
    /\ pc = "fetch" =>
          /\ Len(requests) = Len(pages)
          /\ \A k \in 1..Len(pages) : pages[k] # << >>
          /\ tracks = Flatten([k \in 1..Len(pages) |-> TracksOfPage(pages[k])])
    /\ pc = "save" =>
          /\ Len(requests) = Len(pages)
          /\ Len(pages) >= 1
          /\ pages[Len(pages)] = << >>
          /\ \A k \in 1..(Len(pages) - 1) : pages[k] # << >>
          /\ tracks = Flatten([k \in 1..(Len(pages) - 1) |-> TracksOfPage(pages[k])])

C7_Witness ==
    /\ pc = "save"
    /\ total = <<120>>
    /\ requests = <<0, 50, 100>>
    /\ Len(pages[1]) = 2
    /\ Len(pages[2]) = 1
    /\ Len(tracks) = 3
    /\ tracks[1].id # tracks[2].id
    /\ tracks[2].id = tracks[3].id
    /\ tracks[2].artist = "s"

\* C8: a failed page request ends the run: nothing is saved, compared or
\* mailed for that user, no later user is processed, and the stores keep what
\* earlier users saved.
C8_FetchFailureStopsRun ==
    /\ [](event = "page_error" =>
            /\ pc = "idle"
            /\ exit = "failed"
            /\ stage[users[i]] = "failed"
            /\ \A k \in (i + 1)..Len(users) : stage[users[k]] = "none"
            /\ \A k \in 1..(i - 1) :
                  stage[users[k]] \in {"compared", "notified", "mail_failed"})
    /\ [][event' = "page_error" =>
            /\ store' = store
            /\ lastSave' = lastSave
            /\ lastCompare' = lastCompare]_vars

C8_Witness ==
    /\ event = "page_error"
    /\ i = 2
    /\ offset = PageLimit
    /\ lastSave.user = users[1]
    /\ store[users[1]] # << >>
    /\ store[users[2]] = << >>

\* C9: a failed delivery does not end the run: the only way a run fails is a
\* fetch failure, a run that ends normally has fetched, saved and compared
\* every user, and the failed delivery leaves the stores as they were.
C9_DeliveryFailureIsolated ==
    /\ [](/\ exit = "failed" => (i >= 1 /\ stage[users[i]] = "failed")
          /\ (pc = "idle" /\ exit = "ok") =>
                \A k \in 1..Len(users) :
                    stage[users[k]] \in {"compared", "notified", "mail_failed"}
          /\ event = "mail_error" =>
                /\ stage[lastCompare.user] = "mail_failed"
                /\ lastCompare.outcome = "logged"
                /\ IF lastCompare.user = users[Len(users)]
                   THEN pc = "idle" /\ exit = "ok"
                   ELSE pc = "fetch" /\ users[i - 1] = lastCompare.user)
    /\ [][event' = "mail_error" => store' = store]_vars

C9_Witness ==
    /\ pc = "idle"
    /\ exit = "ok"
    /\ Len(users) = 2
    /\ stage[users[1]] = "mail_failed"
    /\ stage[users[2]] \in {"compared", "notified"}
    /\ lastSave.user = users[2]
    /\ Len(store[users[1]]) = 2

\* C10: a store never holds two rows for one (fetch_date, track_id), and every
\* track id of the latest save has exactly one row under that save's date.
C10_OneRowPerDateAndId ==
    /\ \A u \in UserIds : \A j, k \in 1..Len(store[u]) :
          (/\ store[u][j].fetch_date = store[u][k].fetch_date
           /\ store[u][j].track_id = store[u][k].track_id) => j = k
    /\ lastSave.user # 0 =>
          \A id \in CurIds :
              Cardinality({k \in 1..Len(store[lastSave.user]) :
                  /\ store[lastSave.user][k].track_id = id
                  /\ store[lastSave.user][k].fetch_date = lastSave.day}) = 1

C10_Witness ==
    /\ lastSave.user # 0
    /\ lastSave.n = 2
    /\ Cardinality(CurIds) = 1
    /\ Cardinality(lastSave.names) = 2
    /\ Cardinality(DatesOf(store[lastSave.user])) = 2

====
